---------------------------- MODULE Spec2Model ----------------------------
(* Model of the SocialScour streaming research pipeline:                    *)
(*   backend/main.py            generate_research_stream and its endpoints  *)
(*   backend/rag_service.py     search_reddit, analyze_sentiment,           *)
(*                              generate_sentiment_report                   *)
(*   backend/storage_service.py the conversation store                      *)
(* A Python str is a sequence of one-character strings.  The text of a      *)
(* search hit is too long to spell out (it is cut at 500 and 1000           *)
(* characters), so it is a record [base, len]: the first len characters of  *)
(* the text named base; slicing keeps the base and takes the smaller len.   *)
(* Timestamps are left out: no operation reads them.                        *)
EXTENDS Integers, Sequences, FiniteSets, TLC

\* ------------------------------------------------------------------------
\* Bounds of the model
\* ------------------------------------------------------------------------
MaxHits == 9      \* longest list the search collaborator returns
MaxChunks == 2    \* most chunks the streaming model call delivers

\* ------------------------------------------------------------------------
\* Strings
\* ------------------------------------------------------------------------
Min(a, b) == IF a <= b THEN a ELSE b

QUOTE == "\""
BSLASH == "\\"
NL == "\n"

\* str.isspace for the characters of the model
IsSpace(c) == c \in {" ", "\n", "\t", "\r"}

\* s[i:] with a 0-based Python index i
From(s, i) == IF i >= Len(s) THEN <<>> ELSE SubSeq(s, i + 1, Len(s))

\* str.startswith
StartsWith(s, p) == Len(s) >= Len(p) /\ SubSeq(s, 1, Len(p)) = p

\* str.endswith
EndsWith(s, p) ==
    Len(s) >= Len(p) /\ SubSeq(s, Len(s) - Len(p) + 1, Len(s)) = p

RECURSIVE LStrip(_)
LStrip(s) ==
    IF s = <<>> THEN <<>>
    ELSE IF IsSpace(Head(s)) THEN LStrip(Tail(s)) ELSE s

RECURSIVE RStrip(_)
RStrip(s) ==
    IF s = <<>> THEN <<>>
    ELSE IF IsSpace(s[Len(s)]) THEN RStrip(SubSeq(s, 1, Len(s) - 1)) ELSE s

\* str.strip
Strip(s) == RStrip(LStrip(s))

\* str.replace(old, new): leftmost occurrences, not overlapping
RECURSIVE Replace(_, _, _)
Replace(s, old, new) ==
    IF s = <<>> THEN <<>>
    ELSE IF StartsWith(s, old) THEN new \o Replace(From(s, Len(old)), old, new)
    ELSE <<Head(s)>> \o Replace(Tail(s), old, new)

\* "".join(parts)
RECURSIVE Join(_)
Join(parts) == IF parts = <<>> THEN <<>> ELSE Head(parts) \o Join(Tail(parts))

\* ------------------------------------------------------------------------
\* Literals of the source
\* ------------------------------------------------------------------------
DataPrefix == <<"d","a","t","a",":"," ">>

FrameEnd == <<NL, NL>>

DoneMarker == <<"[","D","O","N","E","]">>

\* "data: [DONE]\n\n"
DoneFrame == DataPrefix \o DoneMarker \o FrameEnd

NoResultsMsg ==
    <<"N","o"," ","r","e","l","e","v","a","n","t"," ","d","i","s","c","u","s",
      "s","i","o","n","s"," ","f","o","u","n","d"," ","o","n"," ","R","e",
      "d","d","i","t",".">>

ReportFallback ==
    <<"R","e","p","o","r","t"," ","g","e","n","e","r","a","t","e","d"," ","s",
      "u","c","c","e","s","s","f","u","l","l","y">>

NoResponseMsg ==
    <<"N","o"," ","r","e","s","p","o","n","s","e"," ","g","e","n","e","r","a",
      "t","e","d","."," ","P","l","e","a","s","e"," ","t","r","y"," ","a",
      "g","a","i","n",".">>

GeminiErrorPrefix ==
    <<"E","r","r","o","r"," ","c","a","l","l","i","n","g"," ","G","e","m","i",
      "n","i"," ","A","P","I",":"," ">>

ReportErrorPrefix ==
    <<"E","r","r","o","r"," ","g","e","n","e","r","a","t","i","n","g"," ","r",
      "e","p","o","r","t",":"," ">>

ErrorPrefix == <<"E","r","r","o","r",":"," ">>

GeminiNotInitMsg ==
    <<"G","e","m","i","n","i"," ","m","o","d","e","l"," ","n","o","t"," ","i",
      "n","i","t","i","a","l","i","z","e","d","."," ","C","h","e","c","k",
      " ","G","E","M","I","N","I","_","A","P","I","_","K","E","Y",".">>

\* str(e) of the AttributeError raised by content.lower() on a None content
NoneContentMsg ==
    <<"'","N","o","n","e","T","y","p","e","'"," ","o","b","j","e","c","t"," ",
      "h","a","s"," ","n","o"," ","a","t","t","r","i","b","u","t","e"," ",
      "'","l","o","w","e","r","'">>

\* str(e) of an exception raised by the streaming model call
StreamFaultMsg == <<"s","t","r","e","a","m"," ","f","a","i","l","e","d">>

\* a message of the provider that holds double quotes and a newline
QuotedFaultMsg == <<"b","a","d"," ",QUOTE,"k","e","y",QUOTE,NL,"r","e","t","r","y">>

\* str(gemini_error) when the call itself is refused: whatever the provider's
\* exception says
StreamFaultMsgs == {StreamFaultMsg, QuotedFaultMsg}

\* str(e) of an exception raised by analyze_sentiment
ClassifierFaultMsg ==
    <<"c","l","a","s","s","i","f","i","e","r"," ","f","a","i","l","e","d">>

\* str(e) of an exception raised by the search provider
SearchFaultMsg == <<"s","e","a","r","c","h"," ","f","a","i","l","e","d">>

\* ------------------------------------------------------------------------
\* Event encoder
\* ------------------------------------------------------------------------
\* f'data: "{payload}"\n\n' : the payload is interpolated as it is
QuotedFrame(payload) == DataPrefix \o <<QUOTE>> \o payload \o <<QUOTE>> \o FrameEnd

\* chunk.text.replace('"', '\\"').replace('\n', '\\n')
CleanText(text) ==
    Replace(Replace(text, <<QUOTE>>, <<BSLASH, QUOTE>>), <<NL>>, <<BSLASH, "n">>)

\* the frame of one text fragment
TextFrame(text) == QuotedFrame(CleanText(text))

DigitChar(d) == <<"0","1","2","3","4","5","6","7","8","9">>[d + 1]

RECURSIVE NatStr(_)
NatStr(n) == IF n < 10 THEN <<DigitChar(n)>>
             ELSE NatStr(n \div 10) \o <<DigitChar(n % 10)>>

IntStr(n) == IF n < 0 THEN <<"-">> \o NatStr(0 - n) ELSE NatStr(n)

\* JSON text of a float with an integral value, e.g. 50.0
ScoreStr(n) == IntStr(n) \o <<".", "0">>

\* JSON text of a float given in tenths, e.g. 3 is 0.3
TenthsStr(t) ==
    IF t < 0 THEN <<"-">> \o NatStr((0 - t) \div 10) \o <<".">> \o NatStr((0 - t) % 10)
    ELSE NatStr(t \div 10) \o <<".">> \o NatStr(t % 10)

\* JSON string literal body of a label: quotes and backslashes are escaped
JsonEscape(s) ==
    Replace(Replace(s, <<BSLASH>>, <<BSLASH, BSLASH>>), <<QUOTE>>, <<BSLASH, QUOTE>>)

\* SentimentAnalysis.model_dump_json()
ModelDumpJson(v) ==
    <<"{","\"","s","c","o","r","e","\"",":">> \o ScoreStr(v.score)
    \o <<",","\"","l","a","b","e","l","\"",":","\"">> \o JsonEscape(v.label)
    \o <<"\"",",","\"","c","o","n","f","i","d","e","n","c","e","\"",":">>
    \o TenthsStr(v.confidence) \o <<"}">>

\* the verdict written as a quoted string, like a text fragment
VerdictFrame_Quoted(v) == QuotedFrame(ModelDumpJson(v))

\* f"data: {sentiment.model_dump_json()}\n\n"
VerdictFrame(v) == DataPrefix \o ModelDumpJson(v) \o FrameEnd


\* ------------------------------------------------------------------------
\* json.loads, as far as the orchestrator uses it: is the value a dict, and
\* which keys has it.  Objects are flat (string or number members), which is
\* what model_dump_json writes for the three scalar fields of a verdict.
\* ------------------------------------------------------------------------
At(s, i) == IF i \in 1..Len(s) THEN s[i] ELSE ""

RECURSIVE SkipWs(_, _)
SkipWs(s, i) == IF IsSpace(At(s, i)) THEN SkipWs(s, i + 1) ELSE i

JsonEscapes == {QUOTE, BSLASH, "/", "b", "f", "n", "r", "t"}

\* s[i] opens a string literal: the index of its closing quote, 0 if the
\* literal is not terminated or holds a raw control character or bad escape
RECURSIVE StringEnd(_, _)
StringEnd(s, i) ==
    LET c == At(s, i + 1) IN
    IF c = "" \/ c \in {"\n", "\t", "\r"} THEN 0
    ELSE IF c = QUOTE THEN i + 1
    ELSE IF c = BSLASH
         THEN IF At(s, i + 2) \in JsonEscapes THEN StringEnd(s, i + 2) ELSE 0
    ELSE StringEnd(s, i + 1)

NumberChars == {"0","1","2","3","4","5","6","7","8","9","-","+",".","e","E"}

RECURSIVE NumberEnd(_, _)
NumberEnd(s, i) ==
    IF At(s, i + 1) \in NumberChars THEN NumberEnd(s, i + 1) ELSE i

\* index of the last character of the scalar value starting at s[i], 0 if none
ValueEnd(s, i) ==
    IF At(s, i) = QUOTE THEN StringEnd(s, i)
    ELSE IF At(s, i) \in NumberChars THEN NumberEnd(s, i)
    ELSE 0

NotADict == [isdict |-> FALSE, keys |-> {}]

\* members of an object from s[i] on, keys being those already read
RECURSIVE Members(_, _, _)
Members(s, i, keys) ==
    LET k == SkipWs(s, i)
        e == IF At(s, k) = QUOTE THEN StringEnd(s, k) ELSE 0
        c == SkipWs(s, e + 1)
        v == SkipWs(s, c + 1)
        w == ValueEnd(s, v)
        m == SkipWs(s, w + 1)
        all == keys \cup {SubSeq(s, k + 1, e - 1)}
    IN  IF e = 0 \/ At(s, c) # ":" \/ w = 0 THEN NotADict
        ELSE IF At(s, m) = "," THEN Members(s, m + 1, all)
        ELSE IF At(s, m) = "}" /\ SkipWs(s, m + 1) > Len(s)
             THEN [isdict |-> TRUE, keys |-> all]
        ELSE NotADict

\* json.loads(data): a text that opens with a quote is a str or is rejected,
\* so only a text that opens with a brace can give a dict
JsonLoads(data) ==
    IF At(data, 1) # "{" THEN NotADict
    ELSE IF At(data, SkipWs(data, 2)) = "}" /\ SkipWs(data, SkipWs(data, 2) + 1) > Len(data)
         THEN [isdict |-> TRUE, keys |-> {}]
    ELSE Members(data, 2, {})

KeyScore == <<"s","c","o","r","e">>

KeyLabel == <<"l","a","b","e","l">>

\* ------------------------------------------------------------------------
\* Stream orchestrator: what the loop body does with one chunk
\* ------------------------------------------------------------------------
\* data = chunk[6:].strip()
ChunkData(chunk) == Strip(From(chunk, 6))

\* the test made on the text of the payload: the words score and label occur
IsVerdictData_ByText(data) ==
    /\ \E i \in 1..(Len(data) - 4) : SubSeq(data, i, i + 4) = KeyScore
    /\ \E i \in 1..(Len(data) - 4) : SubSeq(data, i, i + 4) = KeyLabel

\* isinstance(parsed, dict) and 'score' in parsed and 'label' in parsed
IsVerdictData(data) ==
    LET parsed == JsonLoads(data)
    IN  parsed.isdict /\ KeyScore \in parsed.keys /\ KeyLabel \in parsed.keys

\* the decoding without the second replace: an escaped quote stays escaped
DecodeText_NoQuoteUnescape(data) ==
    LET unquoted == IF StartsWith(data, <<QUOTE>>) /\ EndsWith(data, <<QUOTE>>)
                    THEN SubSeq(data, 2, Len(data) - 1)
                    ELSE data
    IN  Replace(unquoted, <<BSLASH, "n">>, <<NL>>)

\* strip one pair of surrounding quotes, then unescape \n and \"
DecodeText(data) ==
    LET unquoted == IF StartsWith(data, <<QUOTE>>) /\ EndsWith(data, <<QUOTE>>)
                    THEN SubSeq(data, 2, Len(data) - 1)
                    ELSE data
    IN  Replace(Replace(unquoted, <<BSLASH, "n">>, <<NL>>), <<BSLASH, QUOTE>>, <<QUOTE>>)

\* the loop body appending the payload without unescaping it
Accumulate_NoUnescape(chunk, acc) ==
    IF ~StartsWith(chunk, DataPrefix) THEN acc
    ELSE LET data == ChunkData(chunk) IN
         IF data = DoneMarker THEN acc
         ELSE IF IsVerdictData(data) THEN acc
         ELSE LET text_content ==
                    IF StartsWith(data, <<QUOTE>>) /\ EndsWith(data, <<QUOTE>>)
                    THEN SubSeq(data, 2, Len(data) - 1) ELSE data
              IN  IF text_content # <<>> /\ text_content # DoneMarker
                  THEN Append(acc, text_content)
                  ELSE acc

\* accumulated_content after the loop body has handled chunk
Accumulate(chunk, acc) ==
    IF ~StartsWith(chunk, DataPrefix) THEN acc
    ELSE LET data == ChunkData(chunk) IN
         IF data = DoneMarker THEN acc
         ELSE IF IsVerdictData(data) THEN acc
         ELSE LET text_content == DecodeText(data) IN
              IF text_content # <<>> /\ text_content # DoneMarker
              THEN Append(acc, text_content)
              ELSE acc

\* sentiment_data after the loop body has handled chunk (the parsed object is
\* kept as its JSON text)
NoSentiment == <<>>

SentimentData(chunk, sd) ==
    IF ~StartsWith(chunk, DataPrefix) THEN sd
    ELSE LET data == ChunkData(chunk) IN
         IF data # DoneMarker /\ IsVerdictData(data) THEN data ELSE sd

\* the joined fragments left untrimmed
FullContent_NoStrip(acc) == Join(acc)

\* full_content, and the content of the assistant message
FullContent(acc) == Strip(Join(acc))

AssistantContent(acc) ==
    IF FullContent(acc) # <<>> THEN FullContent(acc) ELSE ReportFallback

\* ------------------------------------------------------------------------
\* Search hits and source records
\* ------------------------------------------------------------------------
SynthSourceCap == 8

SynthExcerptLen == 1000

PromptExcerptLen == 500

SentimentHitCap == 5

ClassifierTextCap == 5

FinalSourceCap == 8

FinalExcerptLen == 1000

\* content[:n] of a hit text
Slice(c, n) == [c EXCEPT !.len = Min(c.len, n)]

\* a content that is None
NoneContent == [none |-> TRUE, base |-> 0, len |-> 0]

\* lengths of the texts of the hits the search collaborator can return
HitLen(k) == <<1500, 400, 0, 1000, 1001, 600, 2000, 499, 1200, 30, 700, 501>>[k]

\* the k-th hit of the collaborator's pool: titles, urls and texts are named
\* by numbers, urls from 101 on
Hit(k) == [title |-> k, url |-> 100 + k,
           content |-> [none |-> FALSE, base |-> k, len |-> HitLen(k)]]

\* rag_service.extract_subreddit_from_url: the regular expression finds a
\* subreddit in every url of the pool but those with an odd number
ExtractSubreddit(url) ==
    IF url % 2 = 1 THEN [known |-> FALSE, of |-> 0] ELSE [known |-> TRUE, of |-> url]

\* rag_service.extract_upvotes_from_content: the regular expression finds a
\* count in the texts of the pool whose number is a multiple of 3
ExtractUpvotes(c) == IF c.base % 3 = 0 THEN 10 * c.base ELSE 0

SourceDefaultId == "source-id"

MessageDefaultId == "message-id"

ChatDefaultId == "chat-id"

LoadedChatId == "loaded-chat-id"

LoadedMessageId == "loaded-message-id"

\* Source(title=..., url=..., subreddit=..., upvotes=..., content=content[:n])
MkSource(hit, n) ==
    [id |-> SourceDefaultId, title |-> hit.title, url |-> hit.url,
     subreddit |-> ExtractSubreddit(hit.url),
     upvotes |-> ExtractUpvotes(hit.content),
     content |-> Slice(hit.content, n)]

\* the set-up loop of generate_sentiment_report raises on a None content
SynthSetupRaises(search_results) ==
    \E i \in 1..Min(Len(search_results), SynthSourceCap) : search_results[i].content.none

\* sources built by the set-up loop of generate_sentiment_report
SynthSources(search_results) ==
    [i \in 1..Min(Len(search_results), SynthSourceCap) |->
        MkSource(search_results[i], SynthExcerptLen)]

\* context_parts numbered from 0: Source [i]
ContextParts_ZeroBased(search_results) ==
    [i \in 1..Min(Len(search_results), SynthSourceCap) |->
        [index |-> i - 1, title |-> search_results[i].title,
         subreddit |-> ExtractSubreddit(search_results[i].url),
         content |-> Slice(search_results[i].content, PromptExcerptLen)]]

\* context_parts: Source [i+1], title, subreddit, content[:500]
ContextParts(search_results) ==
    [i \in 1..Min(Len(search_results), SynthSourceCap) |->
        [index |-> i, title |-> search_results[i].title,
         subreddit |-> ExtractSubreddit(search_results[i].url),
         content |-> Slice(search_results[i].content, PromptExcerptLen)]]

\* sentiment_texts
SentimentTexts(search_results) ==
    [i \in 1..Min(Len(search_results), SentimentHitCap) |-> search_results[i].content]

\* the source loop after the stream without the cap on the hits
FinalSources_NoCap(search_results) ==
    [i \in 1..Len(search_results) |-> MkSource(search_results[i], FinalExcerptLen)]

\* sources built by generate_research_stream after the stream
FinalSources(search_results) ==
    [i \in 1..Min(Len(search_results), FinalSourceCap) |->
        MkSource(search_results[i], FinalExcerptLen)]

\* ------------------------------------------------------------------------
\* Sentiment classifier
\* ------------------------------------------------------------------------
Neutral == <<"N","e","u","t","r","a","l">>

Positive == <<"P","o","s","i","t","i","v","e">>

\* SentimentAnalysis(score=50, label="Neutral", confidence=c), c in tenths
DefaultVerdict(c) == [score |-> 50, label |-> Neutral, confidence |-> c]

\* " ".join(texts[:5]).strip() is empty only when no text has a character
CombinedBlank_NoStrip(texts) ==
    \A i \in 1..Min(Len(texts), ClassifierTextCap) : texts[i].len = 0

\* " ".join(texts[:5]).strip() is empty: every text is empty or, as the
\* texts named by a negative number are, made of whitespace only
CombinedBlank(texts) ==
    \A i \in 1..Min(Len(texts), ClassifierTextCap) :
        texts[i].len = 0 \/ texts[i].base < 0

\* ------------------------------------------------------------------------
\* json.loads and the field conversions of SentimentAnalysis, as
\* analyze_sentiment uses them.  Objects and arrays are flat: their values
\* are strings, numbers (a sign, digits, at most a point and digits) and the
\* three literals.
\* ------------------------------------------------------------------------
Digits == {"0","1","2","3","4","5","6","7","8","9"}

DigitVal(c) == CHOOSE d \in 0..9 : DigitChar(d) = c

\* index of the last digit of the run of digits that starts at s[i], i - 1
\* if s[i] is no digit
RECURSIVE DigitsEnd(_, _)
DigitsEnd(s, i) == IF At(s, i) \in Digits THEN DigitsEnd(s, i + 1) ELSE i - 1

RECURSIVE DigitsVal(_)
DigitsVal(s) ==
    IF s = <<>> THEN 0
    ELSE 10 * DigitsVal(SubSeq(s, 1, Len(s) - 1)) + DigitVal(s[Len(s)])

\* s is the text of a number whose digits before the point are s[a..b]
NumberShape(s, a, b) ==
    /\ b >= a
    /\ IF At(s, b + 1) = "."
       THEN DigitsEnd(s, b + 2) = Len(s) /\ Len(s) >= b + 2
       ELSE b = Len(s)

NumberFrom(s, a) == NumberShape(s, a, DigitsEnd(s, a))

\* s is the text of a number
IsNumber(s) == NumberFrom(s, IF At(s, 1) = "-" THEN 2 ELSE 1)

\* ten times the number whose digits before the point are s[a..b]
TenthsShape(s, a, b) ==
    10 * DigitsVal(SubSeq(s, a, b))
        + (IF At(s, b + 1) = "." THEN DigitVal(s[b + 2]) ELSE 0)

\* ten times the number written by s; decimals after the first are dropped
Tenths(s) ==
    IF At(s, 1) = "-" THEN 0 - TenthsShape(s, 2, DigitsEnd(s, 2))
    ELSE TenthsShape(s, 1, DigitsEnd(s, 1))

JsonNull == <<"n","u","l","l">>

JsonTrue == <<"t","r","u","e">>

JsonFalse == <<"f","a","l","s","e">>

\* s[i:].startswith(p), i being a 1-based index
StartsAt(s, i, p) == i + Len(p) - 1 <= Len(s) /\ SubSeq(s, i, i + Len(p) - 1) = p

\* e being the end of the number characters from s[i] on: e if they write a
\* number, 0 if not
NumberAt(s, i, e) == IF IsNumber(SubSeq(s, i, e)) THEN e ELSE 0

\* index of the last character of the scalar value that starts at s[i], 0 if
\* there is none
ScalarEnd(s, i) ==
    IF At(s, i) = QUOTE THEN StringEnd(s, i)
    ELSE IF At(s, i) \in Digits \cup {"-"} THEN NumberAt(s, i, NumberEnd(s, i))
    ELSE IF StartsAt(s, i, JsonNull) THEN i - 1 + Len(JsonNull)
    ELSE IF StartsAt(s, i, JsonTrue) THEN i - 1 + Len(JsonTrue)
    ELSE IF StartsAt(s, i, JsonFalse) THEN i - 1 + Len(JsonFalse)
    ELSE 0

JsonInvalid == [kind |-> "invalid", pairs |-> <<>>]

JsonOther == [kind |-> "other", pairs |-> <<>>]

\* the places of the member that starts at or after s[k]: the quotes of its
\* key (k, e), its colon (c), its value (v, w) and what follows (m); e and w
\* are 0 where the key or the value is not well formed
MemberValue(s, k, e, c, v, w) ==
    [k |-> k, e |-> e, c |-> c, v |-> v, w |-> w, m |-> SkipWs(s, w + 1)]

MemberColon(s, k, e, c) ==
    MemberValue(s, k, e, c, SkipWs(s, c + 1), ScalarEnd(s, SkipWs(s, c + 1)))

MemberKey(s, k, e) == MemberColon(s, k, e, SkipWs(s, e + 1))

MemberAt(s, k) == MemberKey(s, k, IF At(s, k) = QUOTE THEN StringEnd(s, k) ELSE 0)

\* members of an object from s[i] on, pairs being those already read
RECURSIVE MemberPairs(_, _, _)
MemberNext(s, at, pairs) ==
    IF at.e = 0 \/ At(s, at.c) # ":" \/ at.w = 0 THEN JsonInvalid
    ELSE IF At(s, at.m) = ","
         THEN MemberPairs(s, at.m + 1,
                          Append(pairs, [key |-> SubSeq(s, at.k + 1, at.e - 1),
                                         value |-> SubSeq(s, at.v, at.w)]))
    ELSE IF At(s, at.m) = "}" /\ at.m = Len(s)
         THEN [kind |-> "object",
               pairs |-> Append(pairs, [key |-> SubSeq(s, at.k + 1, at.e - 1),
                                        value |-> SubSeq(s, at.v, at.w)])]
    ELSE JsonInvalid

MemberPairs(s, i, pairs) == MemberNext(s, MemberAt(s, SkipWs(s, i)), pairs)

\* the items of an array from s[i] on are scalars and the array closes s
RECURSIVE ArrayItems(_, _)
ArrayNext(s, w, m) ==
    IF w = 0 THEN FALSE
    ELSE IF At(s, m) = "," THEN ArrayItems(s, m + 1)
    ELSE At(s, m) = "]" /\ m = Len(s)

ArrayItem(s, w) == ArrayNext(s, w, SkipWs(s, w + 1))

ArrayItems(s, i) == ArrayItem(s, ScalarEnd(s, SkipWs(s, i)))

\* json.loads of a text without whitespace around it, k being the place of
\* what follows its first character
JsonStripped(s, k) ==
    IF s = <<>> THEN JsonInvalid
    ELSE IF s[1] = "{"
         THEN IF At(s, k) = "}" /\ k = Len(s)
              THEN [kind |-> "object", pairs |-> <<>>]
              ELSE MemberPairs(s, 2, <<>>)
    ELSE IF s[1] = "["
         THEN IF (At(s, k) = "]" /\ k = Len(s)) \/ ArrayItems(s, 2)
              THEN JsonOther
              ELSE JsonInvalid
    ELSE IF ScalarEnd(s, 1) = Len(s) THEN JsonOther
    ELSE JsonInvalid

\* json.loads(text): rejected ("invalid"), a dict with its members in order
\* ("object"), or another value ("other")
JsonValue(text) == JsonStripped(Strip(text), SkipWs(Strip(text), 2))

KeyConfidence == <<"c","o","n","f","i","d","e","n","c","e">>

\* key in data
HasKey(pairs, key) == \E i \in 1..Len(pairs) : pairs[i].key = key

\* data[key]: the last member with the key wins
GetValue(pairs, key) ==
    pairs[CHOOSE i \in 1..Len(pairs) :
            /\ pairs[i].key = key
            /\ \A j \in (i + 1)..Len(pairs) : pairs[j].key # key].value

\* float(number written by s), if s writes one
FloatOfText(s) ==
    IF IsNumber(s) THEN [ok |-> TRUE, tenths |-> Tenths(s)]
    ELSE [ok |-> FALSE, tenths |-> 0]

\* a float field fed with the JSON value v: a number is taken, a string is
\* taken if it writes a number, a boolean counts as 1 or 0, null is refused
FloatOf(v) ==
    IF v[1] = QUOTE THEN FloatOfText(SubSeq(v, 2, Len(v) - 1))
    ELSE IF v = JsonNull THEN [ok |-> FALSE, tenths |-> 0]
    ELSE IF v = JsonTrue THEN [ok |-> TRUE, tenths |-> 10]
    ELSE IF v = JsonFalse THEN [ok |-> TRUE, tenths |-> 0]
    ELSE FloatOfText(v)

\* a float field fed with data.get(key, default)
AsFloat(pairs, key, default) ==
    IF ~HasKey(pairs, key) THEN [ok |-> TRUE, tenths |-> default]
    ELSE FloatOf(GetValue(pairs, key))

\* a str field fed with the JSON value v: only a string is taken
StrOf(v) ==
    IF v[1] = QUOTE
    THEN [ok |-> TRUE,
          text |-> Replace(Replace(SubSeq(v, 2, Len(v) - 1),
                                   <<BSLASH, QUOTE>>, <<QUOTE>>),
                           <<BSLASH, BSLASH>>, <<BSLASH>>)]
    ELSE [ok |-> FALSE, text |-> <<>>]

\* a str field fed with data.get(key, default)
AsStr(pairs, key, default) ==
    IF ~HasKey(pairs, key) THEN [ok |-> TRUE, text |-> default]
    ELSE StrOf(GetValue(pairs, key))

\* ------------------------------------------------------------------------
\* analyze_sentiment
\* ------------------------------------------------------------------------
\* the grave accent, which a string of this module cannot hold: the tilde
\* stands for it in the texts of the model
TICK == "~"

Fence == <<TICK, TICK, TICK>>

FenceJson == Fence \o <<"j","s","o","n">>

\* index of the first occurrence of pat in s at or after s[i], 0 if none
RECURSIVE Find(_, _, _)
Find(s, pat, i) ==
    IF i + Len(pat) - 1 > Len(s) THEN 0
    ELSE IF StartsAt(s, i, pat) THEN i
    ELSE Find(s, pat, i + 1)

\* sep in s
Contains(s, sep) == Find(s, sep, 1) # 0

\* s[:f - 1] if f is a place in s, s if f is 0
Before(s, f) == IF f = 0 THEN s ELSE SubSeq(s, 1, f - 1)

\* s.split(sep)[0]
SplitFirst(s, sep) == Before(s, Find(s, sep, 1))

\* s.split(sep)[1] of an s that holds sep
SplitSecond(s, sep) ==
    SplitFirst(From(s, Find(s, sep, 1) + Len(sep) - 1), sep)

\* the text between the code fences, if the response has them
Unfence(response_text) ==
    IF Contains(response_text, FenceJson)
    THEN Strip(SplitFirst(SplitSecond(response_text, FenceJson), Fence))
    ELSE IF Contains(response_text, Fence)
    THEN Strip(SplitFirst(SplitSecond(response_text, Fence), Fence))
    ELSE response_text

Returns(v) == [exc |-> FALSE, verdict |-> v]

Raises == [exc |-> TRUE, verdict |-> [score |-> 0, label |-> <<>>, confidence |-> 0]]

\* SentimentAnalysis(score=..., label=..., confidence=...) on the converted
\* fields
VerdictOfFields(score, label, confidence) ==
    IF score.ok /\ label.ok /\ confidence.ok
    THEN Returns([score |-> score.tenths \div 10, label |-> label.text,
                  confidence |-> confidence.tenths])
    ELSE Raises

\* the statements that follow json.loads, data being its result
VerdictOfData(data) ==
    IF data.kind = "invalid" THEN Returns(DefaultVerdict(3))
    ELSE IF data.kind # "object" THEN Raises
    ELSE VerdictOfFields(AsFloat(data.pairs, KeyScore, 500),
                         AsStr(data.pairs, KeyLabel, Neutral),
                         AsFloat(data.pairs, KeyConfidence, 5))

\* the inner try of analyze_sentiment on the text of the response: only a
\* JSONDecodeError is handled there
ParseVerdict(text) == VerdictOfData(JsonValue(Unfence(Strip(text))))

\* an answer of the model collaborator to the sentiment prompt: it raises,
\* gives a response without text, or gives a text
Response(kind, text) == [kind |-> kind, text |-> text]

NoResponse == Response("", <<>>)

\* {"score": s, "label": l, "confidence": c}
ObjectText(s, l, c) ==
    <<"{",QUOTE>> \o KeyScore \o <<QUOTE,":"," ">> \o s
    \o <<","," ",QUOTE>> \o KeyLabel \o <<QUOTE,":"," ">> \o l
    \o <<","," ",QUOTE>> \o KeyConfidence \o <<QUOTE,":"," ">> \o c \o <<"}">>

Quoted(s) == <<QUOTE>> \o s \o <<QUOTE>>

ProseText ==
    <<"I"," ","t","h","i","n","k"," ","i","t"," ","i","s"," ","p","o","s","i",
      "t","i","v","e",".">>

\* answers of the collaborator in the runs of the orchestrator
SentimentResponses ==
    { Response("raise", <<>>),
      Response("unparsable", ProseText),
      Response("object", ObjectText(<<"8","5">>, Quoted(Positive), <<"0",".","9">>)) }

\* does analyze_sentiment reach gemini_model.generate_content
ClassifierCalls(texts, gemini_model) ==
    gemini_model /\ (\A i \in 1..Min(Len(texts), ClassifierTextCap) : ~texts[i].none)
    /\ ~CombinedBlank(texts)

\* the statements inside the outer try of analyze_sentiment: they return a
\* verdict or raise
ClassifierBody(texts, gemini_model, resp) ==
    IF ~gemini_model THEN Raises
    ELSE IF \E i \in 1..Min(Len(texts), ClassifierTextCap) : texts[i].none THEN Raises
    ELSE IF CombinedBlank(texts) THEN Returns(DefaultVerdict(0))
    ELSE IF resp.kind = "raise" THEN Raises
    ELSE IF resp.kind = "none" THEN Returns(DefaultVerdict(0))
    ELSE ParseVerdict(resp.text)

\* analyze_sentiment without its outer handler: what the body raises goes on
AnalyzeSentiment_NoOuterCatch(texts, gemini_model, resp) ==
    [raised |-> ClassifierBody(texts, gemini_model, resp).exc,
     verdict |-> ClassifierBody(texts, gemini_model, resp).verdict]

\* the outer handler of analyze_sentiment on what its body did
Handled(r) ==
    [raised |-> FALSE, verdict |-> IF r.exc THEN DefaultVerdict(0) ELSE r.verdict]

\* analyze_sentiment(texts), resp being the collaborator's answer if called:
\* whatever the body raises gives the default verdict
AnalyzeSentiment(texts, gemini_model, resp) ==
    Handled(ClassifierBody(texts, gemini_model, resp))

\* ------------------------------------------------------------------------
\* Conversation store
\* ------------------------------------------------------------------------
\* add_message opening a conversation for an id it does not find
AddMessage_Upsert(chats, id, role, content) ==
    LET message == [id |-> MessageDefaultId, role |-> role, content |-> content] IN
    IF id \notin DOMAIN chats
    THEN (id :> [messages |-> <<message>>, sources |-> <<>>]) @@ chats
    ELSE [chats EXCEPT ![id].messages = Append(@, message)]

\* StorageService.add_message
AddMessage(chats, id, role, content) ==
    IF id \notin DOMAIN chats THEN chats
    ELSE [chats EXCEPT ![id].messages =
            Append(@, [id |-> MessageDefaultId, role |-> role, content |-> content])]

\* add_sources assigning the batch instead of extending the list
AddSources_Overwrite(chats, id, sources) ==
    IF id \notin DOMAIN chats THEN chats
    ELSE [chats EXCEPT ![id].sources = sources]

\* StorageService.add_sources
AddSources(chats, id, sources) ==
    IF id \notin DOMAIN chats THEN chats
    ELSE [chats EXCEPT ![id].sources = @ \o sources]

\* StorageService.create_chat: Chat() takes the class's default id
CreateChat(chats) ==
    (ChatDefaultId :> [messages |-> <<>>, sources |-> <<>>]) @@ chats

\* StorageService.delete_chat
DeleteChatOp(chats, id) == [c \in DOMAIN chats \ {id} |-> chats[c]]

\* the user's query
Query == <<"q">>

\* a conversation loaded from the storage file
LoadedChat ==
    [messages |-> << [id |-> LoadedMessageId, role |-> "user", content |-> Query],
                     [id |-> LoadedMessageId, role |-> "assistant", content |-> <<"o","k">>] >>,
     sources |-> << [MkSource(Hit(1), FinalExcerptLen) EXCEPT !.id = "loaded-source-id"] >>]

\* ------------------------------------------------------------------------
\* Inputs from the collaborators
\* ------------------------------------------------------------------------
Ascending(n) == [i \in 1..n |-> Hit(i)]

Descending(n) == [i \in 1..n |-> Hit(n + 1 - i)]

\* the list with the text of hit p replaced by None
WithNoneAt(list, p) == [list EXCEPT ![p].content = NoneContent]

\* result lists of the search collaborator (response.get('results', []))
SearchLists ==
    {Ascending(n) : n \in 0..MaxHits} \cup {Descending(n) : n \in MaxHits - 1..MaxHits}
    \cup {WithNoneAt(Ascending(MaxHits), p) : p \in {2, MaxHits}}

\* chunks of the streaming model call: a text, or parts when there is no text;
\* one text is itself the JSON of an object with the keys score and label
Chunk(text, parts) == [text |-> text, parts |-> parts]

StreamChunks ==
    { Chunk(<<"a", QUOTE, NL>>, <<>>),
      Chunk(<<" ", "b", " ">>, <<>>),
      Chunk(<<BSLASH, "n">>, <<>>),
      Chunk(DoneMarker, <<>>),
      Chunk(<<"{","\"","s","c","o","r","e","\"",":","1",",","\"","l","a","b","e","l","\"",
              ":","\"","x","\"","}">>, <<>>),
      Chunk(<<>>, <<>>),
      Chunk(<<>>, << <<"c">>, <<>> >>) }

\* ------------------------------------------------------------------------
\* State
\* ------------------------------------------------------------------------
VARIABLES
    chats,                \* storage_service.chats: id -> [messages, sources]
    tavily_client,        \* rag_service.tavily_client is set
    gemini_model,         \* rag_service.gemini_model is set
    pc,                   \* position of generate_research_stream
    chat_id,              \* its chat_id argument
    search_results,       \* its search_results
    accumulated_content,  \* its accumulated_content
    sentiment_data,       \* its sentiment_data
    g_pc,                 \* position of generate_sentiment_report
    sentiment,            \* its sentiment
    sentiment_response,   \* the answer analyze_sentiment got from the model
    prompt,               \* its system_prompt: context parts and verdict
    chunk_count,          \* its chunk_count
    parts_left,           \* parts of the current chunk not yet visited
    frames,               \* frames handed to the caller, in order
    start_chat,           \* the conversation as the run found it
    search_fault,         \* how the search went: "ok", "raised", "unconfigured"
    sentiment_texts,      \* texts handed to analyze_sentiment
    classify_calls,       \* calls of generate_content for the verdict
    stream_calls,         \* calls of generate_content(stream=True)
    fragments,            \* non-empty texts the model stream delivered
    stream_end,           \* how the model stream ended: "", "end", "raised"
    runs                  \* the requests served side by side: run -> its locals

vars == <<chats, tavily_client, gemini_model, pc, chat_id, search_results,
          accumulated_content, sentiment_data, g_pc, sentiment, prompt,
          chunk_count, parts_left, frames, start_chat, search_fault,
          sentiment_texts, classify_calls, stream_calls, fragments, stream_end,
          sentiment_response, runs>>

storeVars == <<chats>>

\* what no step of a request changes in the process: its clients, and the
\* locals of the other requests
configVars == <<tavily_client, gemini_model, runs>>

orchVars == <<chat_id, search_results, start_chat, search_fault>>

synthVars == <<sentiment, prompt, sentiment_texts, classify_calls, sentiment_response>>

streamVars == <<chunk_count, parts_left, stream_calls, fragments, stream_end>>

NoVerdict == [score |-> 0, label |-> <<>>, confidence |-> 0]

NoPrompt == [context |-> <<>>, verdict |-> NoVerdict]

NoChat == [messages |-> <<>>, sources |-> <<>>]

\* no other request is being served
NoRuns == <<>>

\* the process has started: clients configured or not, chats loaded from the file
Init ==
    /\ chats \in { <<>>, (LoadedChatId :> LoadedChat) }
    /\ tavily_client \in BOOLEAN
    /\ gemini_model \in BOOLEAN
    /\ pc = "idle"
    /\ chat_id = ""
    /\ search_results = <<>>
    /\ accumulated_content = <<>>
    /\ sentiment_data = NoSentiment
    /\ g_pc = "new"
    /\ sentiment = NoVerdict
    /\ sentiment_response = NoResponse
    /\ prompt = NoPrompt
    /\ chunk_count = 0
    /\ parts_left = <<>>
    /\ frames = <<>>
    /\ start_chat = NoChat
    /\ search_fault = ""
    /\ sentiment_texts = <<>>
    /\ classify_calls = 0
    /\ stream_calls = 0
    /\ fragments = <<>>
    /\ stream_end = ""
    /\ runs = NoRuns

\* ------------------------------------------------------------------------
\* Endpoints
\* ------------------------------------------------------------------------
\* POST /api/research/{chat_id}/stream
StreamResearch(id) ==
    /\ pc = "idle"
    /\ id \in DOMAIN chats
    /\ chats' = AddMessage(chats, id, "user", Query)
    /\ chat_id' = id
    /\ start_chat' = chats'[id]
    /\ pc' = "start"
    /\ UNCHANGED <<configVars, search_results, search_fault, accumulated_content,
                   sentiment_data, g_pc, synthVars, streamVars, frames>>

\* POST /api/research
CreateNewResearch ==
    /\ pc = "idle"
    /\ chats' = AddMessage(CreateChat(chats), ChatDefaultId, "user", Query)
    /\ chat_id' = ChatDefaultId
    /\ start_chat' = chats'[ChatDefaultId]
    /\ pc' = "start"
    /\ UNCHANGED <<configVars, search_results, search_fault, accumulated_content,
                   sentiment_data, g_pc, synthVars, streamVars, frames>>

\* DELETE /api/chats/{chat_id}
DeleteChat(id) ==
    /\ id \in DOMAIN chats
    /\ chats' = DeleteChatOp(chats, id)
    /\ UNCHANGED <<configVars, pc, orchVars, accumulated_content, sentiment_data,
                   g_pc, synthVars, streamVars, frames>>

\* the caller closes the generator while it is suspended
Suspended == pc \in {"start", "empty_err", "empty_done", "streaming", "exc_err", "exc_done"}

\* a generator that stores what it has accumulated when it is closed
Cancel_PersistPartial ==
    /\ Suspended
    /\ pc' = "cancelled"
    /\ chats' = AddMessage(chats, chat_id, "assistant",
                           AssistantContent(accumulated_content))
    /\ UNCHANGED <<configVars, orchVars, accumulated_content,
                   sentiment_data, g_pc, synthVars, streamVars, frames>>

\* aclose(): GeneratorExit is raised at the yield and no handler takes it
Cancel ==
    /\ Suspended
    /\ pc' = "cancelled"
    /\ UNCHANGED <<storeVars, configVars, orchVars, accumulated_content,
                   sentiment_data, g_pc, synthVars, streamVars, frames>>

\* ------------------------------------------------------------------------
\* generate_research_stream and generate_sentiment_report
\* ------------------------------------------------------------------------
\* answers of the search provider: it raises, or returns a list
SearchAnswers == {[raises |-> TRUE, results |-> <<>>]}
                 \cup {[raises |-> FALSE, results |-> l] : l \in SearchLists}

\* search_reddit without its try/except: a fault reaches the caller
SearchReddit_NoCatch(client, answer) ==
    IF ~client \/ answer.raises THEN [raised |-> TRUE, results |-> <<>>]
    ELSE [raised |-> FALSE, results |-> answer.results]

\* rag_service.search_reddit: every exception is caught and gives []
SearchReddit(client, answer) ==
    IF ~client \/ answer.raises THEN [raised |-> FALSE, results |-> <<>>]
    ELSE [raised |-> FALSE, results |-> answer.results]

\* the emptiness test left out
NoResults_Never(results) == FALSE

\* if not search_results
NoResults(results) == results = <<>>

\* the handler yielding the message without the word Error
ErrorFrame_Bare(msg) == QuotedFrame(msg)

\* yield f'data: "Error: {str(e)}"\n\n'
ErrorFrame(msg) == QuotedFrame(ErrorPrefix \o msg)

\* frames of the empty-search branch
EmptyFrame == QuotedFrame(NoResultsMsg)

\* the empty-search branch returning without a store call
EmptyPersist_Nothing(store, id) == store

\* the store after the empty-search branch has run to its return
EmptyPersist(store, id) == AddMessage(store, id, "assistant", NoResultsMsg)

\* the statements that follow the loop with the fallback message appended
\* whether or not the transcript is empty
Finalized_NoElse(store, id, acc, results) ==
    AddSources(AddMessage(AddMessage(store, id, "assistant", AssistantContent(acc)),
                          id, "assistant", ReportFallback),
               id, FinalSources(results))

\* the store after the statements that follow the loop
Finalized(store, id, acc, results) ==
    AddSources(AddMessage(store, id, "assistant", AssistantContent(acc)),
               id, FinalSources(results))

\* the source loop after the stream run over every hit, without the cap
FinalizeRaises_NoCap(results) ==
    \E i \in 1..Len(results) : results[i].content.none

\* the source loop after the stream raises on a None content
FinalizeRaises(results) ==
    \E i \in 1..Min(Len(results), FinalSourceCap) : results[i].content.none

\* the frame the synthesizer yields when the model stream is exhausted
StreamEndFrame(count) == IF count = 0 THEN QuotedFrame(NoResponseMsg) ELSE DoneFrame

\* the handler of the streaming call yielding the fallback text
StreamFaultFrame_Fallback(msg) == QuotedFrame(NoResponseMsg)

\* yield f'data: "Error calling Gemini API: {str(gemini_error)}"\n\n'
StreamFaultFrame(msg) == QuotedFrame(GeminiErrorPrefix \o msg)

\* the loop body keeping the chunk back instead of yielding it
Forward_Buffered(chunk) ==
    /\ frames' = frames
    /\ accumulated_content' = Accumulate(chunk, accumulated_content)
    /\ sentiment_data' = SentimentData(chunk, sentiment_data)

\* the loop body yielding the chunk a second time
Forward_Twice(chunk) ==
    /\ frames' = Append(Append(frames, chunk), chunk)
    /\ accumulated_content' = Accumulate(chunk, accumulated_content)
    /\ sentiment_data' = SentimentData(chunk, sentiment_data)

\* the loop body of generate_research_stream on a chunk of the synthesizer:
\* the chunk is classified, accumulated and yielded
Forward(chunk) ==
    /\ frames' = Append(frames, chunk)
    /\ accumulated_content' = Accumulate(chunk, accumulated_content)
    /\ sentiment_data' = SentimentData(chunk, sentiment_data)

\* first resumption: search, then either the empty branch, or the set-up of
\* the synthesizer up to its first yield
PullSearch ==
    /\ pc = "start"
    /\ \E answer \in SearchAnswers, resp \in SentimentResponses :
        LET found == SearchReddit(tavily_client, answer)
            texts == SentimentTexts(found.results)
            classified == AnalyzeSentiment(texts, gemini_model, resp)
            verdict == classified.verdict
        IN
        /\ search_fault' = IF ~tavily_client THEN "unconfigured"
                           ELSE IF answer.raises THEN "raised" ELSE "ok"
        /\ search_results' = found.results
        /\ IF found.raised
           THEN /\ frames' = Append(frames, ErrorFrame(SearchFaultMsg))
                /\ pc' = "exc_err"
                /\ UNCHANGED <<g_pc, synthVars, accumulated_content, sentiment_data>>
           ELSE IF NoResults(found.results)
           THEN /\ frames' = Append(frames, EmptyFrame)
                /\ pc' = "empty_err"
                /\ UNCHANGED <<g_pc, synthVars, accumulated_content, sentiment_data>>
           ELSE IF SynthSetupRaises(found.results)
           THEN /\ frames' = Append(frames, ErrorFrame(NoneContentMsg))
                /\ pc' = "exc_err"
                /\ g_pc' = "raised"
                /\ UNCHANGED <<synthVars, accumulated_content, sentiment_data>>
           ELSE IF classified.raised
           THEN /\ frames' = Append(frames, ErrorFrame(ClassifierFaultMsg))
                /\ pc' = "exc_err"
                /\ g_pc' = "raised"
                /\ UNCHANGED <<synthVars, accumulated_content, sentiment_data>>
           ELSE /\ sentiment_texts' = texts
                /\ sentiment_response' = IF ClassifierCalls(texts, gemini_model)
                                         THEN resp ELSE NoResponse
                /\ classify_calls' = classify_calls
                        + (IF ClassifierCalls(texts, gemini_model) THEN 1 ELSE 0)
                /\ sentiment' = verdict
                /\ prompt' = [context |-> ContextParts(found.results), verdict |-> verdict]
                /\ Forward(VerdictFrame(verdict))
                /\ g_pc' = "verdict"
                /\ pc' = "streaming"
    /\ UNCHANGED <<storeVars, configVars, chat_id, start_chat, streamVars>>

\* after the Verdict frame: the streaming model call is made
StartModel ==
    /\ pc = "streaming" /\ g_pc = "verdict"
    /\ IF ~gemini_model
       THEN /\ Forward(QuotedFrame(ReportErrorPrefix \o GeminiNotInitMsg))
            /\ g_pc' = "err"
            /\ UNCHANGED <<stream_calls, stream_end>>
       ELSE /\ stream_calls' = stream_calls + 1
            /\ \E ok \in BOOLEAN :
                IF ok
                THEN /\ g_pc' = "loop"
                     /\ UNCHANGED <<frames, accumulated_content, sentiment_data, stream_end>>
                ELSE /\ \E msg \in StreamFaultMsgs : Forward(StreamFaultFrame(msg))
                     /\ g_pc' = "gemerr"
                     /\ stream_end' = "raised"
    /\ UNCHANGED <<storeVars, configVars, pc, orchVars, synthVars, chunk_count,
                   parts_left, fragments>>

\* for chunk in response: the stream delivers a chunk, raises, or ends
NextChunk ==
    /\ pc = "streaming" /\ g_pc = "loop" /\ parts_left = <<>>
    /\ \/ \E chunk \in StreamChunks :
            /\ chunk_count < MaxChunks
            /\ chunk_count' = chunk_count + 1
            /\ IF chunk.text # <<>>
               THEN /\ Forward(TextFrame(chunk.text))
                    /\ fragments' = Append(fragments, chunk.text)
                    /\ UNCHANGED parts_left
               ELSE /\ parts_left' = chunk.parts
                    /\ UNCHANGED <<frames, accumulated_content, sentiment_data, fragments>>
            /\ UNCHANGED <<g_pc, stream_end>>
       \/ /\ Forward(StreamFaultFrame(StreamFaultMsg))
          /\ g_pc' = "gemerr"
          /\ stream_end' = "raised"
          /\ UNCHANGED <<chunk_count, parts_left, fragments>>
       \/ /\ Forward(StreamEndFrame(chunk_count))
          /\ g_pc' = IF chunk_count = 0 THEN "fallback" ELSE "done"
          /\ stream_end' = "end"
          /\ UNCHANGED <<chunk_count, parts_left, fragments>>
    /\ UNCHANGED <<storeVars, configVars, pc, orchVars, synthVars, stream_calls>>

\* for part in chunk.parts
NextPart ==
    /\ pc = "streaming" /\ g_pc = "loop" /\ parts_left # <<>>
    /\ parts_left' = Tail(parts_left)
    /\ IF Head(parts_left) # <<>>
       THEN /\ Forward(TextFrame(Head(parts_left)))
            /\ fragments' = Append(fragments, Head(parts_left))
       ELSE UNCHANGED <<frames, accumulated_content, sentiment_data, fragments>>
    /\ UNCHANGED <<storeVars, configVars, pc, orchVars, synthVars, g_pc, chunk_count,
                   stream_calls, stream_end>>

\* the synthesizer's yield "data: [DONE]\n\n" after its last text frame
SynthDone ==
    /\ pc = "streaming" /\ g_pc \in {"fallback", "gemerr", "err"}
    /\ Forward(DoneFrame)
    /\ g_pc' = IF g_pc = "err" THEN "errdone" ELSE "done"
    /\ UNCHANGED <<storeVars, configVars, pc, orchVars, synthVars, streamVars>>

\* the synthesizer is exhausted: the statements after the loop
Finalize ==
    /\ pc = "streaming" /\ g_pc \in {"done", "errdone"}
    /\ g_pc' = "end"
    /\ IF FinalizeRaises(search_results)
       THEN /\ chats' = AddMessage(chats, chat_id, "assistant",
                                   AssistantContent(accumulated_content))
            /\ frames' = Append(frames, ErrorFrame(NoneContentMsg))
            /\ pc' = "exc_err"
       ELSE /\ chats' = Finalized(chats, chat_id, accumulated_content, search_results)
            /\ pc' = "done"
            /\ UNCHANGED frames
    /\ UNCHANGED <<configVars, orchVars, accumulated_content, sentiment_data,
                   synthVars, streamVars>>

\* empty branch: yield "data: [DONE]\n\n"
EmptyDone ==
    /\ pc = "empty_err"
    /\ frames' = Append(frames, DoneFrame)
    /\ pc' = "empty_done"
    /\ UNCHANGED <<storeVars, configVars, orchVars, accumulated_content,
                   sentiment_data, g_pc, synthVars, streamVars>>

\* empty branch: add_message and return
EmptyFinish ==
    /\ pc = "empty_done"
    /\ chats' = EmptyPersist(chats, chat_id)
    /\ pc' = "done"
    /\ UNCHANGED <<configVars, orchVars, accumulated_content, sentiment_data,
                   g_pc, synthVars, streamVars, frames>>

\* except Exception: yield "data: [DONE]\n\n"
ExceptDone ==
    /\ pc = "exc_err"
    /\ frames' = Append(frames, DoneFrame)
    /\ pc' = "exc_done"
    /\ UNCHANGED <<storeVars, configVars, orchVars, accumulated_content,
                   sentiment_data, g_pc, synthVars, streamVars>>

\* the generator ends after the handler's last yield
ExceptFinish ==
    /\ pc = "exc_done"
    /\ pc' = "done"
    /\ UNCHANGED <<storeVars, configVars, orchVars, accumulated_content,
                   sentiment_data, g_pc, synthVars, streamVars, frames>>

Next ==
    \/ \E id \in {ChatDefaultId, LoadedChatId} : StreamResearch(id)
    \/ CreateNewResearch
    \/ \E id \in {ChatDefaultId, LoadedChatId} : DeleteChat(id)
    \/ Cancel
    \/ PullSearch
    \/ StartModel
    \/ NextChunk
    \/ NextPart
    \/ SynthDone
    \/ Finalize
    \/ EmptyDone
    \/ EmptyFinish
    \/ ExceptDone
    \/ ExceptFinish

Spec == Init /\ [][Next]_vars

\* ------------------------------------------------------------------------
\* The wire protocol as the caller reads it
\* ------------------------------------------------------------------------
DoneWire == <<"d","a","t","a",":"," ","[","D","O","N","E","]","\n","\n">>

\* payload of a frame: what follows "data: ", without the frame end
WirePayload(f) == Strip(From(f, 6))

IsDoneWire(f) == f = DoneWire

\* a JSON object with the keys score and label
IsVerdictWire(f) == ~IsDoneWire(f) /\ IsVerdictData(WirePayload(f))

\* a quoted string
IsTextWire(f) ==
    /\ ~IsDoneWire(f) /\ ~IsVerdictWire(f)
    /\ StartsWith(WirePayload(f), <<QUOTE>>) /\ EndsWith(WirePayload(f), <<QUOTE>>)
    /\ Len(WirePayload(f)) >= 2

\* the synthesizer has reached its first yield
SynthStreaming == g_pc \notin {"new", "raised"}

\* the run has come to its end without being cancelled
RunEnded == pc = "done"

\* the run has ended after the statements that follow the loop
RunFinalized == pc = "done" /\ g_pc = "end"

\* the run's conversation is in the store
ChatExists == chat_id \in DOMAIN chats

\* ------------------------------------------------------------------------
\* Claims
\* ------------------------------------------------------------------------
\* C1: in a run with a non-empty search result whose synthesizer starts
\* streaming, the first frame is the Verdict frame and no later frame is a
\* Verdict frame: exactly one Verdict frame, before every Text-fragment frame.
C1_VerdictFirst ==
    (SynthStreaming /\ search_results # <<>>) =>
        /\ Len(frames) >= 1
        /\ IsVerdictWire(frames[1])
        /\ \A i \in 2..Len(frames) : ~IsVerdictWire(frames[i])

\* a finished run with a Verdict frame followed by two model fragments
C1_Witness ==
    /\ RunFinalized /\ search_results # <<>>
    /\ Len(fragments) >= 2
    /\ IsVerdictWire(frames[1]) /\ IsTextWire(frames[2]) /\ IsTextWire(frames[3])

\* C2: the Done frame is never followed by another frame, and a run that ends
\* without being cancelled has emitted it: exactly once, as the last frame.
C2_DoneLast ==
    /\ \A i \in 1..Len(frames) : IsDoneWire(frames[i]) => i = Len(frames)
    /\ RunEnded => (frames # <<>> /\ IsDoneWire(frames[Len(frames)]))

\* a run ended after the model stream raised behind a delivered fragment
C2_Witness ==
    /\ RunEnded /\ stream_end = "raised" /\ fragments # <<>>
    /\ IsDoneWire(frames[Len(frames)])

\* frames and contents as the caller and the store's reader see them
EmptyWire ==
    <<"d","a","t","a",":"," ","\"","N","o"," ","r","e","l","e","v","a","n","t",
        " ","d","i","s","c","u","s","s","i","o","n","s"," ","f","o","u","n",
        "d"," ","o","n"," ","R","e","d","d","i","t",".","\"","\n","\n">>

FallbackWire ==
    <<"d","a","t","a",":"," ","\"","N","o"," ","r","e","s","p","o","n","s","e",
        " ","g","e","n","e","r","a","t","e","d","."," ","P","l","e","a","s",
        "e"," ","t","r","y"," ","a","g","a","i","n",".","\"","\n","\n">>

ReportFallbackText ==
    <<"R","e","p","o","r","t"," ","g","e","n","e","r","a","t","e","d"," ","s",
        "u","c","c","e","s","s","f","u","l","l","y">>

NoResultsText ==
    <<"N","o"," ","r","e","l","e","v","a","n","t"," ","d","i","s","c","u","s",
        "s","i","o","n","s"," ","f","o","u","n","d"," ","o","n"," ","R","e",
        "d","d","i","t",".">>

IsPrefix(a, b) == Len(a) <= Len(b) /\ SubSeq(b, 1, Len(a)) = a

\* the Text-fragment frames among fs, and their decoded payloads, in order
TextWires(fs) == SelectSeq(fs, IsTextWire)

DecodedTexts(fs) ==
    [i \in 1..Len(TextWires(fs)) |-> DecodeText(WirePayload(TextWires(fs)[i]))]

NotDoneText(t) == t # <<"[","D","O","N","E","]">>

\* what the run's conversation has gained since the run found it
GainedMessages ==
    SubSeq(chats[chat_id].messages, Len(start_chat.messages) + 1,
           Len(chats[chat_id].messages))

GainedSources ==
    SubSeq(chats[chat_id].sources, Len(start_chat.sources) + 1,
           Len(chats[chat_id].sources))

\* nothing the run found in the conversation has been changed
KeepsStart ==
    /\ IsPrefix(start_chat.messages, chats[chat_id].messages)
    /\ IsPrefix(start_chat.sources, chats[chat_id].sources)

\* one assistant message with the given content
OneAssistant(content) ==
    /\ Len(GainedMessages) = 1
    /\ GainedMessages[1].role = "assistant"
    /\ GainedMessages[1].content = content

\* the search has been made and gave no hit
SearchedEmpty == search_fault # "" /\ search_results = <<>>

C4_Original ==
    (RunEnded /\ search_results # <<>> /\ ChatExists) =>
        LET kept == Strip(Join(accumulated_content))
        IN  /\ KeepsStart
            /\ OneAssistant(IF kept = <<>> THEN ReportFallbackText ELSE kept)
            /\ Len(GainedSources) = Min(Len(search_results), 8)

\* C4 amended: the same for the runs whose synthesizer set-up does not
\* raise; a run whose set-up raises ends with nothing gained.
C4_OneAssistantMessage ==
    /\ (RunFinalized /\ ChatExists) =>
        LET kept == Strip(Join(accumulated_content))
        IN  /\ KeepsStart
            /\ OneAssistant(IF kept = <<>> THEN ReportFallbackText ELSE kept)
            /\ Len(GainedSources) = Min(Len(search_results), 8)
    /\ (RunEnded /\ g_pc = "raised" /\ ChatExists) => chats[chat_id] = start_chat

\* a finished run on a conversation that held messages and sources before
C4_Witness ==
    /\ RunFinalized /\ ChatExists /\ chat_id = LoadedChatId
    /\ Len(start_chat.messages) = 3 /\ Len(start_chat.sources) = 1
    /\ accumulated_content # <<>>

\* C5: when the search gives no hit the frames are the Error frame and then
\* the Done frame, nothing else, and no model call is made.
C5_EmptyFrames ==
    SearchedEmpty =>
        /\ classify_calls = 0 /\ stream_calls = 0
        /\ IsPrefix(frames, <<EmptyWire, DoneWire>>)
        /\ RunEnded => frames = <<EmptyWire, DoneWire>>

\* an ended run whose search returned an empty list, with a model configured
C5_Witness ==
    /\ RunEnded /\ search_fault = "ok" /\ search_results = <<>> /\ gemini_model
    /\ frames = <<EmptyWire, DoneWire>>

C7_SourcesFromHits ==
    (RunFinalized /\ ChatExists) =>
        /\ Len(GainedSources) = Min(Len(search_results), 8)
        /\ Len(prompt.context) = Len(GainedSources)
        /\ \A i \in 1..Len(GainedSources) :
            /\ GainedSources[i].title = search_results[i].title
            /\ GainedSources[i].url = search_results[i].url
            /\ GainedSources[i].content.base = search_results[i].content.base
            /\ GainedSources[i].content.len = Min(search_results[i].content.len, 1000)
            /\ prompt.context[i].title = GainedSources[i].title
            /\ prompt.context[i].subreddit = GainedSources[i].subreddit
            /\ prompt.context[i].content.base = GainedSources[i].content.base
            /\ prompt.context[i].content.len = Min(GainedSources[i].content.len, 500)

\* a completed run over more than eight hits in descending order, the first
\* with a text longer than 1000 characters
C7_Witness ==
    /\ RunFinalized /\ ChatExists
    /\ Len(search_results) > 8
    /\ search_results[1].title > search_results[2].title
    /\ search_results[1].content.len > 1000
    /\ Len(GainedSources) = 8

\* C8: with more than eight hits, the classifier is handed the texts of hits
\* 1..5, the prompt holds hits 1..8 numbered 1..8, and the n-th persisted
\* source is the hit the prompt numbers n; later hits are not used.
C8_OnlyFirstEight ==
    (SynthStreaming /\ Len(search_results) > 8) =>
        /\ Len(sentiment_texts) = 5
        /\ \A i \in 1..5 : sentiment_texts[i] = search_results[i].content
        /\ Len(prompt.context) = 8
        /\ \A i \in 1..8 :
            /\ prompt.context[i].index = i
            /\ prompt.context[i].title = search_results[i].title
            /\ prompt.context[i].content.base = search_results[i].content.base
        /\ (RunFinalized /\ ChatExists) =>
            /\ Len(GainedSources) = 8
            /\ \A i \in 1..8 :
                GainedSources[prompt.context[i].index].title = prompt.context[i].title

\* a completed run over more than eight hits whose ninth hit has no text: the
\* hit that would make the set-up raise is not looked at
C8_Witness ==
    /\ RunFinalized /\ ChatExists
    /\ Len(search_results) > 8
    /\ \E i \in 9..Len(search_results) : search_results[i].content.none

\* C9: a run whose search raised, or whose search client is not configured,
\* shows the caller what a run with an empty result list shows: at every
\* position the same frames and the same conversation.
EmptyRunView ==
    /\ pc \in {"empty_err", "empty_done", "done", "cancelled"}
    /\ frames = CASE pc = "empty_err" -> <<EmptyWire>>
                  [] pc = "empty_done" -> <<EmptyWire, DoneWire>>
                  [] pc = "done" -> <<EmptyWire, DoneWire>>
                  [] OTHER -> frames
    /\ IsPrefix(frames, <<EmptyWire, DoneWire>>) /\ frames # <<>>
    /\ ChatExists =>
        /\ KeepsStart
        /\ GainedSources = <<>>
        /\ IF pc = "done" THEN OneAssistant(NoResultsText) ELSE GainedMessages = <<>>

C9_SearchFaultAsEmpty ==
    /\ search_fault \in {"raised", "unconfigured"} => EmptyRunView
    /\ (search_fault = "ok" /\ search_results = <<>>) => EmptyRunView

\* an ended run whose search provider raised
C9_Witness == search_fault = "raised" /\ RunEnded /\ ChatExists /\ Len(frames) = 2

\* C10 as stated, for the runs whose model stream runs to its end: at least
\* one Text-fragment frame lies between the Verdict frame and the Done
\* frame, and when the stream delivered no non-empty text the only one is
\* the fallback fragment.
C10_Claim ==
    (RunEnded /\ search_results # <<>> /\ stream_end = "end") =>
        /\ Len(frames) >= 3
        /\ IsVerdictWire(frames[1])
        /\ IsTextWire(frames[2])
        /\ IsDoneWire(frames[Len(frames)])
        /\ fragments = <<>> => TextWires(frames) = <<FallbackWire>>

\* ------------------------------------------------------------------------
\* The text codec on its own: a fragment is encoded by the synthesizer and
\* its frame is decoded by the orchestrator's loop body
\* ------------------------------------------------------------------------
MaxTextLen == 3

\* ordinary characters, the double quote and the newline
CodecAlphabet == {"a", "n", " ", QUOTE, NL}

CodecTexts == UNION { [1..k -> CodecAlphabet] : k \in 1..MaxTextLen }

\* a model fragment waits to be encoded; nothing else has happened
InitCodec ==
    /\ chats = <<>>
    /\ tavily_client = FALSE
    /\ gemini_model = TRUE
    /\ pc = "streaming"
    /\ chat_id = ""
    /\ search_results = <<>>
    /\ accumulated_content = <<>>
    /\ sentiment_data = NoSentiment
    /\ g_pc = "loop"
    /\ sentiment = NoVerdict
    /\ sentiment_response = NoResponse
    /\ prompt = NoPrompt
    /\ chunk_count = 0
    /\ parts_left = <<>>
    /\ frames = <<>>
    /\ start_chat = NoChat
    /\ search_fault = ""
    /\ sentiment_texts = <<>>
    /\ classify_calls = 0
    /\ stream_calls = 1
    /\ fragments \in { <<t>> : t \in CodecTexts }
    /\ stream_end = ""
    /\ runs = NoRuns

\* generate_sentiment_report frames the fragment
EncodeFragment ==
    /\ g_pc = "loop" /\ frames = <<>>
    /\ frames' = <<TextFrame(fragments[1])>>
    /\ g_pc' = "framed"
    /\ UNCHANGED <<storeVars, configVars, pc, orchVars, synthVars, streamVars,
                   accumulated_content, sentiment_data>>

\* generate_research_stream takes the payload of the frame and decodes it
DecodeFrame ==
    /\ g_pc = "framed"
    /\ accumulated_content' = <<DecodeText(ChunkData(frames[1]))>>
    /\ g_pc' = "decoded"
    /\ UNCHANGED <<storeVars, configVars, pc, orchVars, synthVars, streamVars,
                   frames, sentiment_data>>

NextCodec == EncodeFragment \/ DecodeFrame

SpecCodec == InitCodec /\ [][NextCodec]_vars

\* C11: for every text fragment built from ordinary characters, double
\* quotes and newlines, encoding it as a Text-fragment frame and decoding the
\* frame's payload (surrounding quotes stripped, \" and \n unescaped) gives
\* back the fragment exactly.
C11_RoundTrip ==
    g_pc = "decoded" =>
        /\ StartsWith(frames[1], DataPrefix) /\ EndsWith(frames[1], FrameEnd)
        /\ accumulated_content = fragments

\* a decoded fragment that holds a double quote and a newline
C11_Witness ==
    /\ g_pc = "decoded"
    /\ \E i, j \in 1..Len(fragments[1]) :
        fragments[1][i] = QUOTE /\ fragments[1][j] = NL
    /\ accumulated_content = fragments

\* ------------------------------------------------------------------------
\* The classifier on its own: analyze_sentiment is applied to a list of
\* texts, with the model configured or not and answering in some way, and
\* the synthesizer frames the verdict
\* ------------------------------------------------------------------------
MaxTexts == 6

\* the text named k that is made of whitespace only
WhiteText(k) == [none |-> FALSE, base |-> 0 - k, len |-> k]

\* a list of n texts: the p-th has words, the q-th is None, the others are
\* empty or made of whitespace (p = 0, q = 0: no such text)
TextList(n, p, q) ==
    [i \in 1..n |-> IF i = q THEN NoneContent
                    ELSE IF i = p THEN Hit(1).content
                    ELSE IF i % 2 = 0 THEN Hit(3).content
                    ELSE WhiteText(i)]

ClassifierInputs ==
    { TextList(n, p, q) : n \in 0..MaxTexts, p \in 0..MaxTexts, q \in {0, MaxTexts - 1} }

Negative == <<"N","e","g","a","t","i","v","e">>

Great == <<"G","r","e","a","t">>

\* answers of the model collaborator to the sentiment prompt, named by what
\* they are
ClassifierResponses ==
    SentimentResponses \cup
    { Response("none", <<>>),
      Response("unparsable", <<>>),
      Response("object", <<" ">> \o FenceJson \o <<NL>>
                  \o ObjectText(<<"2","0">>, Quoted(Negative), <<"0",".","8">>)
                  \o <<NL>> \o Fence \o <<NL>>),
      Response("object", Fence \o <<NL, "{", QUOTE>> \o KeyScore
                  \o <<QUOTE, ":", "7", "0", "}", NL>> \o Fence),
      Response("object", <<"{", "}">>),
      Response("object", ObjectText(Quoted(<<"8","5">>), Quoted(Positive), <<"1">>)),
      Response("nonobject", <<"[","1",","," ","2","]">>),
      Response("nonobject", Quoted(Positive)),
      Response("nonobject", <<"4","2">>),
      Response("badtypes", ObjectText(Quoted(<<"h","i","g","h">>), Quoted(Positive),
                                      <<"0",".","9">>)),
      Response("badtypes", ObjectText(<<"8","5">>, <<"5">>, <<"0",".","9">>)),
      Response("badtypes", ObjectText(<<"8","5">>, Quoted(Positive), JsonNull)),
      Response("outofrange", ObjectText(<<"1","5","0">>, Quoted(Great), <<"1",".","5">>)),
      Response("outofrange", ObjectText(<<"-","5">>, Quoted(Neutral), <<"0",".","5">>)) }

\* analyze_sentiment is about to be called
InitClassifier ==
    /\ chats = <<>>
    /\ tavily_client = TRUE
    /\ gemini_model \in BOOLEAN
    /\ pc = "start"
    /\ chat_id = ""
    /\ search_results = <<>>
    /\ accumulated_content = <<>>
    /\ sentiment_data = NoSentiment
    /\ g_pc = "classify"
    /\ sentiment = NoVerdict
    /\ sentiment_response \in ClassifierResponses
    /\ prompt = NoPrompt
    /\ chunk_count = 0
    /\ parts_left = <<>>
    /\ frames = <<>>
    /\ start_chat = NoChat
    /\ search_fault = "ok"
    /\ sentiment_texts \in ClassifierInputs
    /\ classify_calls = 0
    /\ stream_calls = 0
    /\ fragments = <<>>
    /\ stream_end = ""
    /\ runs = NoRuns

\* sentiment = await self.analyze_sentiment(sentiment_texts)
Classify ==
    /\ g_pc = "classify"
    /\ LET classified == AnalyzeSentiment(sentiment_texts, gemini_model, sentiment_response)
       IN  /\ sentiment' = classified.verdict
           /\ g_pc' = IF classified.raised THEN "raised" ELSE "classified"
    /\ classify_calls' = classify_calls
            + (IF ClassifierCalls(sentiment_texts, gemini_model) THEN 1 ELSE 0)
    /\ UNCHANGED <<storeVars, configVars, pc, orchVars, prompt, sentiment_texts,
                   sentiment_response, streamVars, frames, accumulated_content,
                   sentiment_data>>

\* yield f"data: {sentiment.model_dump_json()}\n\n"
EmitVerdict ==
    /\ g_pc = "classified"
    /\ frames' = <<VerdictFrame(sentiment)>>
    /\ g_pc' = "verdict"
    /\ UNCHANGED <<storeVars, configVars, pc, orchVars, synthVars, streamVars,
                   accumulated_content, sentiment_data>>

NextClassifier == Classify \/ EmitVerdict

SpecClassifier == InitClassifier /\ [][NextClassifier]_vars

\* analyze_sentiment has been called and has come to its end
Classified == g_pc \in {"raised", "classified", "verdict"} /\ prompt = NoPrompt

\* the first five texts are strings that are empty or made of whitespace
FirstFiveBlank ==
    \A i \in 1..Min(Len(sentiment_texts), 5) :
        /\ ~sentiment_texts[i].none
        /\ sentiment_texts[i].len = 0 \/ sentiment_texts[i] = WhiteText(i)

NeutralVerdict(c) ==
    [score |-> 50, label |-> <<"N","e","u","t","r","a","l">>, confidence |-> c]

\* C12: when the first five texts given to analyze_sentiment are all empty
\* or made of whitespace, it returns score 50, label Neutral, confidence 0.0
\* and makes no call of the model, whether a model is configured or not.
C12_BlankTexts ==
    (Classified /\ FirstFiveBlank) =>
        /\ g_pc # "raised"
        /\ sentiment = NeutralVerdict(0)
        /\ classify_calls = 0

\* six texts, the first five of whitespace or empty and the sixth of words,
\* classified with a model configured
C12_Witness ==
    /\ Classified /\ FirstFiveBlank /\ gemini_model
    /\ Len(sentiment_texts) = 6
    /\ sentiment_texts[1] = WhiteText(1)
    /\ sentiment_texts[6].len > 0 /\ sentiment_texts[6].base > 0
    /\ sentiment = NeutralVerdict(0)

\* ------------------------------------------------------------------------
\* Claims on runs that are disturbed
\* ------------------------------------------------------------------------
\* the run's conversation has been deleted since the run began
DeletedUnderRun == pc # "idle" /\ ~ChatExists

DoneCount(fs) == Cardinality({i \in 1..Len(fs) : IsDoneWire(fs[i])})

\* the suspended generator is at a yield from which its code goes on: none
\* of its positions is one where an exception has left it
AtYield ==
    \/ pc \in {"start", "empty_err", "empty_done", "exc_err", "exc_done"}
    \/ pc = "streaming"
        /\ g_pc \in {"verdict", "loop", "fallback", "gemerr", "err", "done", "errdone"}

\* C13: when the run's conversation is deleted while the run is under way,
\* the run does not raise: it stays at a yield of its code until it ends,
\* and where it ends the last frame is the one Done frame; every later
\* store call of the run leaves the store as it is, and the conversation
\* is not in the store again.
C13_DeletedMidRun ==
    [][DeletedUnderRun =>
        /\ Suspended => AtYield
        /\ pc' = "done" => (frames' # <<>> /\ IsDoneWire(frames'[Len(frames')])
                            /\ DoneCount(frames') = 1)
        /\ chat_id \notin DOMAIN chats'
        /\ DOMAIN chats' \subseteq DOMAIN chats
        /\ \A c \in DOMAIN chats' : chats'[c] = chats[c]]_vars

\* the conversation is gone while the synthesizer's frames have all been
\* forwarded and the statements after the loop are still to run
C13_Witness ==
    /\ DeletedUnderRun /\ pc = "streaming" /\ g_pc = "done"
    /\ accumulated_content # <<>>
    /\ chats = <<>>

\* C14 as stated, for the runs whose model stream runs to its end: in a run
\* with hits, whenever the caller has received the Done frame the store
\* already holds the run's assistant message and its batch of sources.
C14_Claim ==
    (search_results # <<>> /\ stream_end = "end" /\ ChatExists /\ DoneCount(frames) >= 1) =>
        /\ Len(GainedMessages) = 1
        /\ GainedMessages[1].role = "assistant"
        /\ GainedSources # <<>>

\* C15: when the caller closes the stream before its natural end, the run
\* appends no assistant message and no sources: the conversation, if it is
\* still there, is as the run found it, on the empty path and on the
\* synthesis path alike.
C15_CancelPersistsNothing ==
    (pc = "cancelled" /\ ChatExists) => chats[chat_id] = start_chat

\* a run closed after a model fragment has been forwarded and accumulated
C15_Witness ==
    /\ pc = "cancelled" /\ ChatExists
    /\ g_pc = "loop" /\ fragments # <<>> /\ accumulated_content # <<>>
    /\ chats[chat_id] = start_chat

\* a Text-fragment frame that reports a failure: its text opens with the
\* word Error, or it is the frame of the empty search
IsErrorWire(f) ==
    /\ IsTextWire(f)
    /\ \/ IsPrefix(<<"E","r","r","o","r">>, DecodeText(WirePayload(f)))
       \/ f = EmptyWire

ErrorCount(fs) == Cardinality({i \in 1..Len(fs) : IsErrorWire(fs[i])})

\* the frames end with an error frame and the Done frame, and hold no other
\* error or Done frame
EndsErrorDone(fs) ==
    /\ Len(fs) >= 2
    /\ IsErrorWire(fs[Len(fs) - 1]) /\ IsDoneWire(fs[Len(fs)])
    /\ ErrorCount(fs) = 1 /\ DoneCount(fs) = 1

\* the search provider, the set-up of the synthesizer, the model under the
\* classifier or the model stream has raised in the run
StageFaulted ==
    \/ search_fault \in {"raised", "unconfigured"}
    \/ g_pc = "raised"
    \/ sentiment_response.kind = "raise"
    \/ stream_end = "raised"

\* C16 as stated: an exception in whatever stage gives exactly one Error
\* frame followed by one Done frame.
C16_Original == (RunEnded /\ StageFaulted) => EndsErrorDone(frames)

\* C16, amended: no exception leaves generate_research_stream: the
\* generator is always at a yield of its code or at its end.  A fault of the
\* synthesizer's set-up is caught by generate_research_stream and gives
\* exactly the frame "Error: <message>" and the Done frame, with nothing
\* persisted.  A fault of the search gives the two frames of the empty
\* search.  A fault of the model under the classifier gives the default
\* verdict in the Verdict frame and no error frame.  A fault of the model
\* stream gives one frame "Error calling Gemini API: <message>" followed by
\* the Done frame, and the run then persists as after any stream.
C16_FaultsHandled ==
    /\ pc \in {"idle", "done", "cancelled"} \/ AtYield
    /\ (RunEnded /\ g_pc = "raised") =>
        /\ Len(frames) = 2 /\ EndsErrorDone(frames)
        /\ IsPrefix(<<"E","r","r","o","r",":"," ">>, DecodeText(WirePayload(frames[1])))
        /\ ChatExists => chats[chat_id] = start_chat
    /\ (RunEnded /\ search_fault \in {"raised", "unconfigured"}) =>
        frames = <<EmptyWire, DoneWire>>
    /\ (SynthStreaming /\ sentiment_response.kind = "raise") =>
        /\ IsVerdictWire(frames[1])
        /\ sentiment = NeutralVerdict(0)
        /\ stream_end # "raised" => ErrorCount(frames) = 0
    /\ (RunEnded /\ stream_end = "raised") =>
        /\ EndsErrorDone(frames)
        /\ IsPrefix(<<"E","r","r","o","r"," ","c","a","l","l","i","n","g"," ",
                      "G","e","m","i","n","i"," ","A","P","I",":"," ">>,
                    DecodeText(WirePayload(frames[Len(frames) - 1])))
        /\ g_pc = "end"
        /\ ChatExists => Len(GainedMessages) = 1

\* an ended run whose set-up raised on a hit without content
C16_Witness ==
    /\ RunEnded /\ g_pc = "raised" /\ ChatExists
    /\ SynthSetupRaises(search_results)
    /\ EndsErrorDone(frames)

\* one of the first five texts is None
NoneAmongFive ==
    \E i \in 1..Min(Len(sentiment_texts), 5) : sentiment_texts[i].none

\* the model was called and answered in one of the given ways
Answered(kinds) == classify_calls = 1 /\ sentiment_response.kind \in kinds

\* the classifier could not get a verdict from the model
ClassifierFailed ==
    \/ ~gemini_model
    \/ NoneAmongFive
    \/ Answered({"raise", "none", "unparsable", "nonobject", "badtypes"})

\* C17: analyze_sentiment never raises: whatever the texts and whether the
\* model is not configured, raises, gives no text, gives text that is not
\* JSON, gives JSON that is not an object or gives an object with fields of
\* a wrong type, it returns a verdict, and on each of these failures the
\* verdict has score 50 and label Neutral.
C17_NeverRaises ==
    Classified =>
        /\ g_pc # "raised"
        /\ DOMAIN sentiment = {"score", "label", "confidence"}
        /\ ClassifierFailed =>
            (sentiment.score = 50 /\ sentiment.label = <<"N","e","u","t","r","a","l">>)

\* the model was called and gave an object whose fields have a wrong type
C17_Witness ==
    /\ Classified /\ Answered({"badtypes"})
    /\ g_pc # "raised"
    /\ sentiment.score = 50

\* C18 as stated: a model text that cannot be turned into a verdict gives
\* (50, Neutral, 0.3); a model that raises, is not configured or gives no
\* text gives (50, Neutral, 0.0).
C18_Claim ==
    Classified =>
        /\ Answered({"unparsable", "nonobject", "badtypes"}) =>
            sentiment = NeutralVerdict(3)
        /\ (~gemini_model \/ Answered({"raise", "none"})) =>
            sentiment = NeutralVerdict(0)

FiveLabels ==
    { <<"V","e","r","y"," ","N","e","g","a","t","i","v","e">>,
      <<"N","e","g","a","t","i","v","e">>,
      <<"N","e","u","t","r","a","l">>,
      <<"P","o","s","i","t","i","v","e">>,
      <<"V","e","r","y"," ","P","o","s","i","t","i","v","e">> }

\* C19 as stated: every verdict analyze_sentiment returns has a score from 0
\* to 100, one of the five labels and a confidence from 0 to 1 (held in
\* tenths), whatever object the model gives.
C19_Claim ==
    Classified =>
        /\ sentiment.score \in 0..100
        /\ sentiment.label \in FiveLabels
        /\ sentiment.confidence \in 0..10

\* C20: when the streaming model call raises after k fragments, k >= 0, the
\* synthesizer's frames are the Verdict frame, the k fragments, exactly one
\* further fragment that describes the error, and then only the Done marker
\* that ends its sequence: no fallback fragment is among them, and the
\* handler of the orchestrator is not entered.
C20_StreamFault ==
    stream_end = "raised" =>
        LET k == Len(fragments) IN
        /\ g_pc \in {"gemerr", "done", "end"}
        /\ pc \in {"streaming", "done", "cancelled"}
        /\ Len(frames) = (IF g_pc = "gemerr" THEN k + 2 ELSE k + 3)
        /\ IsVerdictWire(frames[1])
        /\ \A i \in 2..(k + 1) : IsTextWire(frames[i]) /\ ~IsErrorWire(frames[i])
        /\ IsTextWire(frames[k + 2])
        /\ IsPrefix(<<"E","r","r","o","r"," ","c","a","l","l","i","n","g"," ",
                      "G","e","m","i","n","i"," ","A","P","I",":"," ">>,
                    DecodeText(WirePayload(frames[k + 2])))
        /\ g_pc # "gemerr" => IsDoneWire(frames[k + 3])
        /\ \A i \in 1..Len(frames) : frames[i] # FallbackWire

\* an ended run whose model stream raised after two fragments
C20_Witness ==
    /\ stream_end = "raised" /\ RunEnded /\ g_pc = "end"
    /\ Len(fragments) = 2
    /\ Len(frames) = 5

\* ------------------------------------------------------------------------
\* Order and multiplicity of the frames of the model stream
\* ------------------------------------------------------------------------
HasBackslash(s) == \E i \in 1..Len(s) : s[i] = BSLASH

\* the streaming model call of the run has been made
ModelCalled == stream_calls > 0

\* C21 as stated: the decoded Text-fragment frames of a run are exactly the
\* non-empty fragments the model stream produced, in order, each once.
C21_Original == ModelCalled => DecodedTexts(frames) = fragments

\* tw holds, in order and one for one, the encodings of the fragments fs,
\* each decoding to its fragment unless it holds a backslash, and after them
\* only fallback or error fragments
FramesOfFragments(tw, fs) ==
    /\ Len(tw) >= Len(fs)
    /\ \A i \in 1..Len(fs) :
        /\ tw[i] = DataPrefix \o <<QUOTE>> \o CleanText(fs[i]) \o <<QUOTE>> \o FrameEnd
        /\ ~HasBackslash(fs[i]) => DecodeText(WirePayload(tw[i])) = fs[i]
    /\ stream_end = "" => Len(tw) = Len(fs)
    /\ \A i \in (Len(fs) + 1)..Len(tw) :
        \/ tw[i] = FallbackWire /\ stream_end = "end" /\ chunk_count = 0
        \/ IsPrefix(DataPrefix \o <<QUOTE, "E", "r", "r", "o", "r">>, tw[i])

\* C21 amended: while the stream runs, the Text-fragment frames are, in
\* order and one for one, the encodings of the non-empty fragments produced
\* so far, an empty fragment giving no frame; decoding a frame gives its
\* fragment back when the fragment holds no backslash; once the stream is
\* over, the only further Text-fragment frames are the fallback fragment of
\* a stream without any chunk and the error fragments.
C21_FragmentsInOrder ==
    ModelCalled => FramesOfFragments(TextWires(frames), fragments)

\* two chunks have come, one of them without text, the other with a quote
\* and a newline
C21_Witness ==
    /\ ModelCalled /\ chunk_count = 2 /\ Len(fragments) = 1
    /\ fragments[1] = <<"a", QUOTE, NL>>
    /\ Len(TextWires(frames)) = 1

\* the caller holds the Verdict frame, and a frame for every fragment of the
\* chunks pulled from the model so far
VerdictHanded == Len(frames) >= 1 /\ IsVerdictWire(frames[1])

FragmentsHanded ==
    /\ parts_left = <<>>
    /\ Len(TextWires(frames)) = Len(fragments)
    /\ Len(TextWires(frames)) + 1 = Len(frames)

\* C22: the streaming model call is started only when the caller holds the
\* Verdict frame, and a chunk is pulled from the model stream only when the
\* caller holds the frames of all fragments of the chunks pulled before, so
\* no frame waits for the end of the stream.
C22_Incremental ==
    [][ /\ stream_calls' > stream_calls => (VerdictHanded /\ Len(frames) = 1)
        /\ chunk_count' > chunk_count => (VerdictHanded /\ FragmentsHanded /\ stream_end = "")
      ]_vars

\* the stream is still open and the caller holds the Verdict frame and the
\* frames of the two chunks pulled so far
C22_Witness ==
    /\ stream_end = "" /\ g_pc = "loop" /\ chunk_count = 2
    /\ VerdictHanded /\ FragmentsHanded /\ Len(fragments) = 2

\* ------------------------------------------------------------------------
\* Shape of the error frames
\* ------------------------------------------------------------------------
\* the payload is one JSON string literal: it opens with a quote, and the
\* first quote that is not escaped is its last character
WellQuoted(payload) ==
    /\ Len(payload) >= 2 /\ payload[1] = QUOTE
    /\ StringEnd(payload, 1) = Len(payload)

\* C23, the part on escaping: every error frame of a run carries a payload
\* that is a well-formed quoted string, the double quotes and newlines of the
\* message being escaped, and the frame after it is the Done frame.
C23_Claim ==
    \A i \in 1..Len(frames) :
        IsErrorWire(frames[i]) =>
            /\ WellQuoted(WirePayload(frames[i]))
            /\ i < Len(frames) => IsDoneWire(frames[i + 1])

\* ------------------------------------------------------------------------
\* Classification of the frames by the orchestrator
\* ------------------------------------------------------------------------
ScoreLabelText ==
    <<"{","\"","s","c","o","r","e","\"",":","1",",","\"","l","a","b","e","l","\"",
      ":","\"","x","\"","}">>

\* the loop is running: every frame so far has come from the synthesizer
InLoop == pc = "streaming" /\ Len(frames) >= 1

\* the decoded payloads of the frames tw
DecodedWires(tw) == [i \in 1..Len(tw) |-> DecodeText(WirePayload(tw[i]))]

\* the frames after the first that the orchestrator takes for text
LaterTextWires == SelectSeq(Tail(frames), IsTextWire)

\* the first frame, and no other, has been taken for the verdict, and every
\* frame of a fragment for text
OnlyVerdictIsVerdict ==
    /\ IsVerdictWire(frames[1])
    /\ Len(LaterTextWires) >= Len(fragments)
    /\ \A i \in 2..Len(frames) : IsTextWire(frames[i]) \/ IsDoneWire(frames[i])
    /\ sentiment_data = WirePayload(frames[1])
    /\ \A i \in 1..Len(accumulated_content) : accumulated_content[i] # sentiment_data

StreamErrorTexts == {GeminiErrorPrefix \o msg : msg \in StreamFaultMsgs}

\* a fragment as the orchestrator reads it from its frame
Relayed(text) == DecodeText(<<QUOTE>> \o CleanText(text) \o <<QUOTE>>)

RelayedOf(fs) == SelectSeq([i \in 1..Len(fs) |-> Relayed(fs[i])], NotDoneText)

RelayedFragments == RelayedOf(fragments)

\* a run on a conversation still in the store has ended after its model
\* stream raised
FaultedAndFinalized == RunFinalized /\ ChatExists /\ stream_end = "raised"

SourcesPersisted == Len(GainedSources) = Min(Len(search_results), 8)

DistinctIds(records) ==
    \A i, j \in 1..Len(records) : i # j => records[i].id # records[j].id

\* C26: the Source records a finished run has persisted have pairwise
\* distinct identifiers, and the messages of its conversation have pairwise
\* distinct identifiers.
C26_Claim ==
    (RunFinalized /\ ChatExists) =>
        /\ DistinctIds(GainedSources)
        /\ DistinctIds(chats[chat_id].messages)

\* ------------------------------------------------------------------------
\* Two requests served side by side by the one event loop: each is a call
\* of an endpoint and then its own generate_research_stream, whose steps
\* (from one yield to the next) interleave with the steps of the other; the
\* store is the one thing they share
\* ------------------------------------------------------------------------
MaxRunChunks == 2

Runs == {1, 2}

\* request.query of each request
RunQuery(r) == <<"q", DigitChar(r)>>

\* lists the search returns to a request
RunSearchLists == {<<>>, Ascending(1), Descending(2)}

\* chunks of a request's model stream
RunChunks == {Chunk(<<"a", QUOTE, NL>>, <<>>), Chunk(<<" ", "b", " ">>, <<>>)}

\* the locals of a request that has not been made yet
IdleRun ==
    [pc |-> "idle", chat_id |-> "", created |-> FALSE, search_results |-> <<>>,
     accumulated_content |-> <<>>, fragments |-> <<>>, chunk_count |-> 0]

\* one list at module level used as the accumulator of every request
OwnAccumulator_Shared(rs, r) == rs[1].accumulated_content

\* accumulated_content = [] is a local of each call of the generator
OwnAccumulator(rs, r) == rs[r].accumulated_content

\* the variables of the single request, which these requests do not use
singleVars == <<tavily_client, gemini_model, pc, chat_id, search_results,
                accumulated_content, sentiment_data, g_pc, sentiment, prompt,
                chunk_count, parts_left, frames, start_chat, search_fault,
                sentiment_texts, classify_calls, stream_calls, fragments,
                stream_end, sentiment_response>>

InitRuns ==
    /\ chats \in { <<>>, (LoadedChatId :> LoadedChat) }
    /\ runs = [r \in Runs |-> IdleRun]
    /\ tavily_client = TRUE
    /\ gemini_model = TRUE
    /\ pc = "idle"
    /\ chat_id = ""
    /\ search_results = <<>>
    /\ accumulated_content = <<>>
    /\ sentiment_data = NoSentiment
    /\ g_pc = "new"
    /\ sentiment = NoVerdict
    /\ sentiment_response = NoResponse
    /\ prompt = NoPrompt
    /\ chunk_count = 0
    /\ parts_left = <<>>
    /\ frames = <<>>
    /\ start_chat = NoChat
    /\ search_fault = ""
    /\ sentiment_texts = <<>>
    /\ classify_calls = 0
    /\ stream_calls = 0
    /\ fragments = <<>>
    /\ stream_end = ""

\* POST /api/research/{chat_id}/stream
RunStreamResearch(r, id) ==
    /\ runs[r].pc = "idle"
    /\ id \in DOMAIN chats
    /\ chats' = AddMessage(chats, id, "user", RunQuery(r))
    /\ runs' = [runs EXCEPT ![r].pc = "start", ![r].chat_id = id]
    /\ UNCHANGED singleVars

\* POST /api/research
RunCreateNewResearch(r) ==
    /\ runs[r].pc = "idle"
    /\ chats' = AddMessage(CreateChat(chats), ChatDefaultId, "user", RunQuery(r))
    /\ runs' = [runs EXCEPT ![r].pc = "start", ![r].chat_id = ChatDefaultId,
                            ![r].created = TRUE]
    /\ UNCHANGED singleVars

\* first resumption: the search, then the empty branch up to its first
\* yield, or the synthesizer up to the Verdict frame, which the loop takes
RunPullSearch(r) ==
    /\ runs[r].pc = "start"
    /\ \E list \in RunSearchLists :
        LET found == SearchReddit(tavily_client, [raises |-> FALSE, results |-> list])
        IN  runs' = [runs EXCEPT
                ![r].search_results = found.results,
                ![r].pc = IF NoResults(found.results) THEN "empty_err" ELSE "streaming",
                ![r].accumulated_content =
                    IF NoResults(found.results) THEN OwnAccumulator(runs, r)
                    ELSE Accumulate(VerdictFrame(DefaultVerdict(0)),
                                    OwnAccumulator(runs, r))]
    /\ UNCHANGED <<chats, singleVars>>

\* empty branch: yield "data: [DONE]\n\n"
RunEmptyDone(r) ==
    /\ runs[r].pc = "empty_err"
    /\ runs' = [runs EXCEPT ![r].pc = "empty_done"]
    /\ UNCHANGED <<chats, singleVars>>

\* empty branch: add_message and return
RunEmptyFinish(r) ==
    /\ runs[r].pc = "empty_done"
    /\ chats' = EmptyPersist(chats, runs[r].chat_id)
    /\ runs' = [runs EXCEPT ![r].pc = "done"]
    /\ UNCHANGED singleVars

\* the loop body on the frame of the next chunk of the request's own stream
RunNextChunk(r) ==
    /\ runs[r].pc = "streaming"
    /\ runs[r].chunk_count < MaxRunChunks
    /\ \E chunk \in RunChunks :
        runs' = [runs EXCEPT
            ![r].chunk_count = @ + 1,
            ![r].fragments = Append(@, chunk.text),
            ![r].accumulated_content =
                Accumulate(TextFrame(chunk.text), OwnAccumulator(runs, r))]
    /\ UNCHANGED <<chats, singleVars>>

\* the stream ends: the fallback fragment if no chunk has come, and the Done
\* marker, pass through the loop
RunStreamEnd(r) ==
    /\ runs[r].pc = "streaming"
    /\ runs' = [runs EXCEPT
            ![r].pc = "ending",
            ![r].accumulated_content =
                Accumulate(DoneFrame,
                    IF runs[r].chunk_count = 0
                    THEN Accumulate(StreamEndFrame(0), OwnAccumulator(runs, r))
                    ELSE OwnAccumulator(runs, r))]
    /\ UNCHANGED <<chats, singleVars>>

\* the statements after the loop: add_message and add_sources, with no
\* suspension between them
RunFinalize(r) ==
    /\ runs[r].pc = "ending"
    /\ chats' = Finalized(chats, runs[r].chat_id, OwnAccumulator(runs, r),
                          runs[r].search_results)
    /\ runs' = [runs EXCEPT ![r].pc = "done"]
    /\ UNCHANGED singleVars

NextRuns ==
    \E r \in Runs :
        \/ \E id \in {ChatDefaultId, LoadedChatId} : RunStreamResearch(r, id)
        \/ RunCreateNewResearch(r)
        \/ RunPullSearch(r)
        \/ RunEmptyDone(r)
        \/ RunEmptyFinish(r)
        \/ RunNextChunk(r)
        \/ RunStreamEnd(r)
        \/ RunFinalize(r)

SpecRuns == InitRuns /\ [][NextRuns]_vars

\* the transcript of a request built from the fragments of its own stream:
\* the fallback fragment when no chunk came, else the fragments as decoded,
\* joined and trimmed
OwnTranscript(r) ==
    IF runs[r].chunk_count = 0 THEN NoResponseMsg
    ELSE LET kept == Strip(Join(RelayedOf(runs[r].fragments)))
         IN  IF kept = <<>> THEN ReportFallback ELSE kept

LastOf(seq) == seq[Len(seq)]

\* request r runs the statements after its loop in this step
Finalizes(r) ==
    /\ runs[r].pc = "ending" /\ runs'[r].pc = "done"
    /\ runs[r].chat_id \in DOMAIN chats

\* C24: whatever the interleaving of two requests, on one conversation or
\* on two, the assistant message a request persists is built from the
\* fragments of its own model stream only.
C24_OwnFragments ==
    [][ \A r \in Runs :
            Finalizes(r) =>
                LET written == LastOf(chats'[runs[r].chat_id].messages)
                IN  /\ written.role = "assistant"
                    /\ written.content = OwnTranscript(r)
                    /\ Len(chats'[runs[r].chat_id].messages) =
                           Len(chats[runs[r].chat_id].messages) + 1
      ]_vars

\* two requests on one conversation, whose streams were read alternately and
\* gave different fragments, have both persisted their message
C24_Witness ==
    /\ runs[1].pc = "done" /\ runs[2].pc = "done"
    /\ runs[1].chat_id = LoadedChatId /\ runs[2].chat_id = LoadedChatId
    /\ runs[1].fragments = << <<"a", QUOTE, NL>>, <<"a", QUOTE, NL>> >>
    /\ runs[2].fragments = << <<" ", "b", " ">> >>
    /\ Len(chats[LoadedChatId].messages) = 6
    /\ chats[LoadedChatId].messages[5].content = <<"b">>
    /\ chats[LoadedChatId].messages[6].content = <<"a", QUOTE, NL, "a", QUOTE>>

\* both requests have run to their end on one conversation that neither of
\* them replaced
BothDoneOnOne ==
    /\ runs[1].pc = "done" /\ runs[2].pc = "done"
    /\ runs[1].chat_id = runs[2].chat_id
    /\ ~(runs[1].created /\ runs[2].created)

\* the conversation as it was before the two requests
BaseChat == IF runs[1].chat_id = LoadedChatId THEN LoadedChat ELSE NoChat

UserMessage(r) == [id |-> MessageDefaultId, role |-> "user", content |-> RunQuery(r)]

AssistantMessage(r) ==
    [id |-> MessageDefaultId, role |-> "assistant",
     content |-> IF runs[r].search_results = <<>> THEN NoResultsMsg
                 ELSE OwnTranscript(r)]

RunBatch(r) == FinalSources(runs[r].search_results)

\* seq is base followed by the four messages of the two requests, each once,
\* the user message of a request before its assistant message
HoldsBothExchanges(seq, base) ==
    /\ Len(seq) = Len(base) + 4
    /\ SubSeq(seq, 1, Len(base)) = base
    /\ \E u1, a1, u2, a2 \in 1..4 :
        /\ Cardinality({u1, a1, u2, a2}) = 4
        /\ u1 < a1 /\ u2 < a2
        /\ seq[Len(base) + u1] = UserMessage(1)
        /\ seq[Len(base) + a1] = AssistantMessage(1)
        /\ seq[Len(base) + u2] = UserMessage(2)
        /\ seq[Len(base) + a2] = AssistantMessage(2)

\* C25: after two requests on one conversation have both ended, in any
\* interleaving, the conversation holds what it held before, both user
\* messages, both assistant messages, and both batches of sources, each
\* once, each batch contiguous and in its own order.
C25_NoLostWrites ==
    BothDoneOnOne =>
        LET chat == chats[runs[1].chat_id]
        IN  /\ HoldsBothExchanges(chat.messages, BaseChat.messages)
            /\ chat.sources \in
                   { BaseChat.sources \o RunBatch(1) \o RunBatch(2),
                     BaseChat.sources \o RunBatch(2) \o RunBatch(1) }

\* two requests on the loaded conversation with different hits: the second
\* finished first
C25_Witness ==
    /\ BothDoneOnOne /\ runs[1].chat_id = LoadedChatId
    /\ runs[1].search_results = Ascending(1)
    /\ runs[2].search_results = Descending(2)
    /\ runs[1].fragments # <<>> /\ runs[2].fragments # <<>>
    /\ chats[LoadedChatId].sources = LoadedChat.sources \o RunBatch(2) \o RunBatch(1)
    /\ chats[LoadedChatId].messages[3] = UserMessage(1)
    /\ chats[LoadedChatId].messages[4] = UserMessage(2)
    /\ chats[LoadedChatId].messages[5] = AssistantMessage(2)

\* conversations made by create_chat since the start, none being deleted
CreatedChats == Cardinality({r \in Runs : runs[r].created})

LoadedChats == IF LoadedChatId \in DOMAIN chats THEN 1 ELSE 0

\* C27: every create_chat adds a conversation under an id of its own, so
\* with no delete the store holds the loaded conversations and one more for
\* each call, and each request that made a conversation finds its user
\* message in it and writes to a conversation no other call has made.
C27_Claim ==
    /\ Cardinality(DOMAIN chats) = LoadedChats + CreatedChats
    /\ \A r \in Runs :
        runs[r].created =>
            /\ runs[r].chat_id \in DOMAIN chats
            /\ \E i \in 1..Len(chats[runs[r].chat_id].messages) :
                   chats[runs[r].chat_id].messages[i] = UserMessage(r)
            /\ \A q \in Runs \ {r} :
                   runs[q].created => runs[q].chat_id # runs[r].chat_id

=============================================================================
